---- MODULE Spec2Model ----
(***************************************************************************)
(* Model of utils/template_filters.py (microblog.pub): the template        *)
(* filters that normalise ActivityPub documents (url_or_id, get_url,       *)
(* get_actor, get_answer_count, has_type) and the media resolver           *)
(* (_get_file_url with its process-wide memo _GRIDFS_CACHE).               *)
(*                                                                         *)
(* Python values are tagged records: [t |-> tag, v |-> payload].  A raised *)
(* exception is the value [t |-> "raise", v |-> exception class].          *)
(***************************************************************************)
EXTENDS Integers, Sequences, FiniteSets, TLC

VARIABLES
    fn, args, ret, calls,          \* the last filter call: name, arguments, result, backend calls
    GRIDFS_CACHE,                  \* the process-wide memo: key -> local reference
    store, storeUp, held, nextId,  \* the media cache store (GridFS) and its history
    last,                          \* the last completed resolve call (sequential server)
    pc, frame, refs                \* per-thread position and locals; references handed out per key

vars == <<fn, args, ret, calls, GRIDFS_CACHE, store, storeUp, held, nextId, last, pc, frame, refs>>
fnVars == <<fn, args, ret, calls>>
mediaVars == <<GRIDFS_CACHE, store, storeUp, held, nextId>>
threadVars == <<pc, frame, refs>>

----------------------------------------------------------------------------
(* Bounds *)

\* longest list of links handed to get_url
MaxLen == 2
\* number of renditions the external pipeline stores during a run
MaxIds == 2
\* number of request-handling threads
NThreads == 2

----------------------------------------------------------------------------
(* Python values *)

None_ == [t |-> "none"]
Str(s) == [t |-> "str", v |-> s]
Num(n) == [t |-> "int", v |-> n]
Bool(b) == [t |-> "bool", v |-> b]
List(s) == [t |-> "list", v |-> s]
Dict(f) == [t |-> "dict", v |-> f]
Raise(e) == [t |-> "raise", v |-> e]

\* Python truthiness, as tested by `if x:` and `not x`
Truthy(x) ==
    CASE x.t = "none" -> FALSE
      [] x.t = "str" -> x.v # ""
      [] x.t = "int" -> x.v # 0
      [] x.t = "bool" -> x.v
      [] x.t = "list" -> Len(x.v) > 0
      [] x.t = "dict" -> DOMAIN x.v # {}
      [] OTHER -> TRUE

\* dict.get(key, default)
DictGet(d, key, default) == IF key \in DOMAIN d.v THEN d.v[key] ELSE default

\* str(x) inside an f-string
PyStr(x) ==
    CASE x.t = "str" -> x.v
      [] x.t = "none" -> "None"
      [] OTHER -> "<object>"

\* repr of an exception instance, as written by {exc!r}
ExcRepr(e) == e \o "()"

\* all sequences over S of length at most n
SeqUpTo(S, n) == UNION {[1..k -> S] : k \in 0..n}

\* all dicts whose keys are drawn from the domain of the record of sets R
DictsOver(R) == UNION {{Dict(f) : f \in [D -> UNION {R[k] : k \in D}]} : D \in SUBSET DOMAIN R}

----------------------------------------------------------------------------
(* url_or_id *)

url_or_id(d) ==
    IF d.t = "dict"
    THEN IF "url" \in DOMAIN d.v
         THEN d.v["url"]
         ELSE IF "id" \in DOMAIN d.v THEN d.v["id"] ELSE Raise("KeyError")
    ELSE Str("")

TargetValues == {Str("A"), Str("B")}
TargetDicts ==
    {Dict(f) : f \in UNION {[D -> TargetValues] : D \in SUBSET {"url", "id", "name"}}}
TargetInputs == TargetDicts \cup {None_, Str("A"), Num(7), List(<<Str("A")>>), List(<<>>)}

----------------------------------------------------------------------------
(* get_url *)

\* the `for l in u` loop of get_url: u is rebound at every text/html link,
\* the iteration goes on over the original list
RECURSIVE get_url_loop(_, _, _)
get_url_loop(lst, i, u) ==
    IF i > Len(lst)
    THEN u
    ELSE LET l == lst[i] IN
         IF l.t # "dict"
         THEN Raise("AttributeError")
         ELSE IF DictGet(l, "mimeType", None_) = Str("text/html")
              THEN get_url_loop(lst, i + 1, l)
              ELSE get_url_loop(lst, i + 1, u)

get_url(u) ==
    LET u1 == IF u.t = "list" THEN get_url_loop(u.v, 1, u) ELSE u IN
    IF u1.t = "raise"
    THEN u1
    ELSE IF u1.t = "dict"
         THEN IF "href" \in DOMAIN u1.v THEN u1.v["href"] ELSE Raise("KeyError")
         ELSE u1

MimeTypes == {Str("text/html"), Str("application/activity+json")}
Hrefs == {Str("https://a/1"), Str("https://b/2")}
LinkLikes ==
    {Dict([mimeType |-> m, href |-> h]) : m \in MimeTypes, h \in Hrefs}
        \cup {Dict([href |-> Str("https://a/1")])}
UrlInputs ==
    {List(s) : s \in SeqUpTo(LinkLikes, MaxLen)} \cup LinkLikes \cup {Str("https://a/1"), None_}

----------------------------------------------------------------------------
(* get_actor *)

\* get_actor with `except ActivityNotFoundError:` alone as its first handler
get_actor_gone_uncaught(url, fetched) ==
    IF ~Truthy(url)
    THEN [ret |-> None_, calls |-> <<>>]
    ELSE LET u1 == IF url.t = "list" THEN url.v[1] ELSE url
             u2 == IF u1.t = "dict" THEN DictGet(u1, "id", None_) ELSE u1
         IN  [calls |-> <<u2>>,
              ret |->
                IF fetched.t # "raise"
                THEN fetched
                ELSE IF fetched.v \in {"ActivityNotFoundError"}
                     THEN Str("Deleted<" \o PyStr(u2) \o ">")
                     ELSE Str("Error<" \o PyStr(u2) \o "/" \o ExcRepr(fetched.v) \o ">")]

\* `fetched` is what ap.get_backend().fetch_iri returns or raises for the
\* identifier: a document, or Raise(exception class)
get_actor(url, fetched) ==
    IF ~Truthy(url)
    THEN [ret |-> None_, calls |-> <<>>]
    ELSE LET u1 == IF url.t = "list" THEN url.v[1] ELSE url
             u2 == IF u1.t = "dict" THEN DictGet(u1, "id", None_) ELSE u1
         IN  [calls |-> <<u2>>,
              ret |->
                IF fetched.t # "raise"
                THEN fetched
                ELSE IF fetched.v \in {"ActivityNotFoundError", "ActivityGoneError"}
                     THEN Str("Deleted<" \o PyStr(u2) \o ">")
                     ELSE Str("Error<" \o PyStr(u2) \o "/" \o ExcRepr(fetched.v) \o ">")]

ActorIds == {Str("https://x/actor/1"), Str("https://y/actor/2")}
ActorDicts == {Dict([id |-> i]) : i \in ActorIds} \cup {Dict([name |-> Str("bob")]), Dict(<<>>)}
ActorRefs ==
    {None_, Str(""), List(<<>>)} \cup ActorIds \cup ActorDicts
        \cup {List(s) : s \in SeqUpTo(ActorIds \cup ActorDicts, 2) \ {<<>>}}
ActorDoc == Dict([id |-> Str("https://x/actor/1"), type |-> Str("Person")])
FetchOutcomes ==
    {ActorDoc, Raise("ActivityNotFoundError"), Raise("ActivityGoneError"),
     Raise("ConnectionError"), Raise("ValueError")}

----------------------------------------------------------------------------
(* get_answer_count *)

\* core.activitypub._answer_key: the key under which the aggregate counts
\* of a choice are stored
answer_key(choice) ==
    CASE choice = "yes" -> "k_yes"
      [] choice = "no" -> "k_no"
      [] OTHER -> "k_other"

\* the `for option in ...` loop: returns at the first option whose name is
\* choice; falling off the end of the function returns None
RECURSIVE answer_loop(_, _, _)
answer_loop(options, i, choice) ==
    IF i > Len(options)
    THEN None_
    ELSE LET option == options[i] IN
         IF DictGet(option, "name", None_) = Str(choice)
         THEN DictGet(DictGet(option, "replies", Dict(<<>>)), "totalItems", Num(0))
         ELSE answer_loop(options, i + 1, choice)

get_answer_count(choice, obj, meta) ==
    LET count_from_meta ==
            DictGet(DictGet(meta, "question_answers", Dict(<<>>)), answer_key(choice), Num(0))
    IN  IF Truthy(count_from_meta)
        THEN count_from_meta
        ELSE answer_loop(DictGet(obj, "oneOf", DictGet(obj, "anyOf", List(<<>>))).v, 1, choice)

Choices == {"yes", "no"}
Option(name, n) == Dict([name |-> Str(name), replies |-> Dict([totalItems |-> Num(n)])])
OptionNoTotal(name) == Dict([name |-> Str(name), replies |-> Dict(<<>>)])
OptionBare(name) == Dict([name |-> Str(name)])
OptionLists ==
    {List(<<>>), List(<<Option("yes", 3)>>), List(<<Option("no", 2), Option("yes", 3)>>),
     List(<<OptionNoTotal("yes")>>), List(<<OptionBare("no"), Option("yes", 4)>>)}
Questions == DictsOver([oneOf |-> OptionLists, anyOf |-> OptionLists])
Metas ==
    {Dict(<<>>), Dict([question_replies |-> Num(9)])}
        \cup {Dict([question_answers |-> Dict(f)]) :
                f \in UNION {[D -> {Num(0), Num(5)}] : D \in SUBSET {"k_yes", "k_no"}}}

----------------------------------------------------------------------------
(* has_type *)

\* little_boxes.activitypub._to_list
to_list(data) == IF data.t = "list" THEN data.v ELSE <<data>>

\* `x in lst`
In(x, lst) == \E i \in 1..Len(lst) : lst[i] = x

\* the `for _type in _to_list(_types)` loop; doc["type"] is evaluated at
\* every iteration
RECURSIVE has_type_loop(_, _, _)
has_type_loop(doc, tl, i) ==
    IF i > Len(tl)
    THEN Bool(FALSE)
    ELSE IF "type" \notin DOMAIN doc.v
         THEN Raise("KeyError")
         ELSE IF In(tl[i], to_list(doc.v["type"]))
              THEN Bool(TRUE)
              ELSE has_type_loop(doc, tl, i + 1)

has_type(doc, types) == has_type_loop(doc, to_list(types), 1)

Tags == {Str("Person"), Str("Note"), Str("Question")}
TypeValues == Tags \cup {List(s) : s \in SeqUpTo(Tags, 2)}
TypedDocs ==
    {Dict([type |-> ty, id |-> Str("https://x/1")]) : ty \in TypeValues}
        \cup {Dict([type |-> ty]) : ty \in TypeValues}
        \cup {Dict([id |-> Str("https://x/1")]), Dict(<<>>)}

----------------------------------------------------------------------------------------------------------------------------------------
(* The filters as operations of the template layer: a template hands a     *)
(* filter its arguments, the filter returns its result                     *)

NoCall == "-"
Pending == [t |-> "pending"]

FilterCalls ==
    {<<"url_or_id", <<d>>>> : d \in TargetInputs}
        \cup {<<"get_url", <<u>>>> : u \in UrlInputs}
        \cup {<<"get_actor", <<url, fetched>>>> : url \in ActorRefs, fetched \in FetchOutcomes}
        \cup {<<"get_answer_count", <<Str(choice), obj, meta>>>> :
                choice \in Choices, obj \in Questions, meta \in Metas}
        \cup {<<"has_type", <<doc, types>>>> : doc \in TypedDocs, types \in TypeValues}

Call_url_or_id ==
    /\ fn = "url_or_id" /\ ret = Pending
    /\ ret' = url_or_id(args[1])
    /\ UNCHANGED <<fn, args, calls, mediaVars, last, threadVars>>

Call_get_url ==
    /\ fn = "get_url" /\ ret = Pending
    /\ ret' = get_url(args[1])
    /\ UNCHANGED <<fn, args, calls, mediaVars, last, threadVars>>

Call_get_actor ==
    /\ fn = "get_actor" /\ ret = Pending
    /\ ret' = get_actor(args[1], args[2]).ret
    /\ calls' = get_actor(args[1], args[2]).calls
    /\ UNCHANGED <<fn, args, mediaVars, last, threadVars>>

Call_get_answer_count ==
    /\ fn = "get_answer_count" /\ ret = Pending
    /\ ret' = get_answer_count(args[1].v, args[2], args[3])
    /\ UNCHANGED <<fn, args, calls, mediaVars, last, threadVars>>

Call_has_type ==
    /\ fn = "has_type" /\ ret = Pending
    /\ ret' = has_type(args[1], args[2])
    /\ UNCHANGED <<fn, args, calls, mediaVars, last, threadVars>>

----------------------------------------------------------------------------
(* The media cache store (MEDIA_CACHE, a GridFS collection) *)

Kinds == {"ACTOR_ICON", "ATTACHMENT", "OG_IMAGE"}

\* the (url, size) pairs the templates hand to the filter of each kind;
\* size None is the original, 100 the default of get_og_image_url
Requests(kind) ==
    CASE kind = "ACTOR_ICON" -> {<<Str("https://a/pic.png"), Num(100)>>}
      [] kind = "ATTACHMENT" -> {<<Str("https://b/pic.png"), None_>>}
      [] kind = "OG_IMAGE" -> {<<Str("https://a/pic.png"), Num(100)>>}
Keys == UNION {{<<kind, r[1], r[2]>> : r \in Requests(kind)} : kind \in Kinds}

\* a stored rendition; its ObjectId is the i-th one the store handed out
File(i) == [t |-> "file", id |-> i]

\* str(ObjectId)
OidHex == <<"5d0a01", "5d0a02", "5d0a03", "5d0a04">>
ObjectIdStr(i) == OidHex[i]

\* MEDIA_CACHE.get_file(url, size, kind): the rendition stored for the key
\* or None; raises when the database cannot be reached
get_file(st, up, url, size, kind) ==
    IF up THEN st[<<kind, url, size>>] ELSE Raise("ServerSelectionTimeoutError")

----------------------------------------------------------------------------
(* _get_file_url, as one call on a single-threaded server *)

\* _GRIDFS_CACHE.get(k)
MemoGet(memo, k) == IF k \in DOMAIN memo THEN memo[k] ELSE None_

\* _GRIDFS_CACHE[k] = u
MemoSet(memo, k, u) == [x \in DOMAIN memo \cup {k} |-> IF x = k THEN u ELSE memo[x]]

\* f"/media/{str(doc._id)}"
MediaRef(doc) == Str("/media/" \o ObjectIdStr(doc.id))

\* _get_file_url without `_GRIDFS_CACHE[k] = u`
get_file_url_no_insert(memo, st, up, url, size, kind) ==
    LET k == <<kind, url, size>>
        cached == MemoGet(memo, k)
    IN  IF Truthy(cached)
        THEN [ret |-> cached, memo |-> memo, seen |-> <<>>]
        ELSE LET doc == get_file(st, up, url, size, kind) IN
             IF doc.t = "raise"
             THEN [ret |-> doc, memo |-> memo, seen |-> <<doc>>]
             ELSE IF Truthy(doc)
                  THEN [ret |-> MediaRef(doc), memo |-> memo, seen |-> <<doc>>]
                  ELSE [ret |-> url, memo |-> memo, seen |-> <<doc>>]

\* _get_file_url without the early `return cached`
get_file_url_no_hit(memo, st, up, url, size, kind) ==
    LET k == <<kind, url, size>>
        doc == get_file(st, up, url, size, kind)
    IN  IF doc.t = "raise"
        THEN [ret |-> doc, memo |-> memo, seen |-> <<doc>>]
        ELSE IF Truthy(doc)
             THEN [ret |-> MediaRef(doc), memo |-> MemoSet(memo, k, MediaRef(doc)),
                   seen |-> <<doc>>]
             ELSE [ret |-> url, memo |-> memo, seen |-> <<doc>>]

\* _get_file_url that also memoizes the fallback: `_GRIDFS_CACHE[k] = url`
get_file_url_memo_fallback(memo, st, up, url, size, kind) ==
    LET k == <<kind, url, size>>
        cached == MemoGet(memo, k)
    IN  IF Truthy(cached)
        THEN [ret |-> cached, memo |-> memo, seen |-> <<>>]
        ELSE LET doc == get_file(st, up, url, size, kind) IN
             IF doc.t = "raise"
             THEN [ret |-> doc, memo |-> memo, seen |-> <<doc>>]
             ELSE IF Truthy(doc)
                  THEN [ret |-> MediaRef(doc), memo |-> MemoSet(memo, k, MediaRef(doc)),
                        seen |-> <<doc>>]
                  ELSE [ret |-> url, memo |-> MemoSet(memo, k, url), seen |-> <<doc>>]

\* the call's result, the memo after it, and the replies of the backing
\* store it saw (one per MEDIA_CACHE.get_file call, in order)
get_file_url(memo, st, up, url, size, kind) ==
    LET k == <<kind, url, size>>
        cached == MemoGet(memo, k)
    IN  IF Truthy(cached)
        THEN [ret |-> cached, memo |-> memo, seen |-> <<>>]
        ELSE LET doc == get_file(st, up, url, size, kind) IN
             IF doc.t = "raise"
             THEN [ret |-> doc, memo |-> memo, seen |-> <<doc>>]
             ELSE IF Truthy(doc)
                  THEN [ret |-> MediaRef(doc), memo |-> MemoSet(memo, k, MediaRef(doc)),
                        seen |-> <<doc>>]
                  ELSE [ret |-> url, memo |-> memo, seen |-> <<doc>>]

\* the except clause of get_og_image_url
og_result(r) == IF r.t = "raise" THEN Str("") ELSE r

NoLast ==
    [fn |-> NoCall, key |-> <<>>, ret |-> None_, seen |-> <<>>, had |-> FALSE,
     memoSame |-> TRUE, quiet |-> FALSE, again |-> FALSE, prevRet |-> None_, prevSeen |-> <<>>]

\* the record of one call of filter f that ended with r = get_file_url(...):
\* `again` says that it repeats the call before it, nothing having happened
\* in between
CallRecord(f, k, r) ==
    LET rep == last.fn # NoCall /\ last.quiet /\ last.key = k IN
    [fn |-> f, key |-> k,
     ret |-> IF f = "get_og_image_url" THEN og_result(r.ret) ELSE r.ret,
     seen |-> r.seen,
     had |-> k \in DOMAIN GRIDFS_CACHE,
     memoSame |-> r.memo = GRIDFS_CACHE,
     quiet |-> TRUE,
     again |-> rep,
     prevRet |-> IF rep THEN last.ret ELSE None_,
     prevSeen |-> IF rep THEN last.seen ELSE <<>>]

get_actor_icon_url ==
    \E q \in Requests("ACTOR_ICON") :
        LET r == get_file_url(GRIDFS_CACHE, store, storeUp, q[1], q[2], "ACTOR_ICON") IN
        /\ GRIDFS_CACHE' = r.memo
        /\ last' = CallRecord("get_actor_icon_url", <<"ACTOR_ICON", q[1], q[2]>>, r)
        /\ UNCHANGED <<store, storeUp, held, nextId, fnVars, threadVars>>

get_attachment_url ==
    \E q \in Requests("ATTACHMENT") :
        LET r == get_file_url(GRIDFS_CACHE, store, storeUp, q[1], q[2], "ATTACHMENT") IN
        /\ GRIDFS_CACHE' = r.memo
        /\ last' = CallRecord("get_attachment_url", <<"ATTACHMENT", q[1], q[2]>>, r)
        /\ UNCHANGED <<store, storeUp, held, nextId, fnVars, threadVars>>

get_og_image_url ==
    \E q \in Requests("OG_IMAGE") :
        LET r == get_file_url(GRIDFS_CACHE, store, storeUp, q[1], q[2], "OG_IMAGE") IN
        /\ GRIDFS_CACHE' = r.memo
        /\ last' = CallRecord("get_og_image_url", <<"OG_IMAGE", q[1], q[2]>>, r)
        /\ UNCHANGED <<store, storeUp, held, nextId, fnVars, threadVars>>

----------------------------------------------------------------------------
(* _get_file_url run by several request threads: the memo lookup, the      *)
(* store query and the memo insert are separate steps, each atomic         *)

Threads == 1..NThreads
NoFrame == [fn |-> NoCall, key |-> <<>>, doc |-> None_]

FilterOf(kind) ==
    CASE kind = "ACTOR_ICON" -> "get_actor_icon_url"
      [] kind = "ATTACHMENT" -> "get_attachment_url"
      [] kind = "OG_IMAGE" -> "get_og_image_url"

\* per key: the local references written to the memo or returned to a
\* caller, and the renditions the store returned
Handed(k, u) == [refs EXCEPT ![k].vals = @ \cup {u}]
Returned(k, doc) == [refs EXCEPT ![k].docs = @ \cup {doc}]

\* a thread enters one of the three filters: k = (kind, url, size),
\* cached = _GRIDFS_CACHE.get(k), and the return on a hit
Lookup ==
    \E t \in Threads, kind \in Kinds : \E q \in Requests(kind) :
        LET k == <<kind, q[1], q[2]>>
            cached == MemoGet(GRIDFS_CACHE, k)
        IN  /\ pc[t] = "idle"
            /\ IF Truthy(cached)
               THEN /\ refs' = Handed(k, cached)
                    /\ UNCHANGED <<pc, frame>>
               ELSE /\ pc' = [pc EXCEPT ![t] = "query"]
                    /\ frame' = [frame EXCEPT ![t] = [fn |-> FilterOf(kind), key |-> k, doc |-> None_]]
                    /\ UNCHANGED refs
            /\ UNCHANGED <<mediaVars, last, fnVars>>

\* Insert with a memo key that leaves the kind out: the entry is written
\* for every key of the same url and size
Insert_no_kind ==
    \E t \in Threads :
        LET k == frame[t].key
            u == MediaRef(frame[t].doc)
            same == {x \in Keys : x[2] = k[2] /\ x[3] = k[3]}
        IN  /\ pc[t] = "insert"
            /\ GRIDFS_CACHE' = [x \in DOMAIN GRIDFS_CACHE \cup same |->
                                    IF x \in same THEN u ELSE GRIDFS_CACHE[x]]
            /\ refs' = Handed(k, u)
            /\ pc' = [pc EXCEPT ![t] = "idle"]
            /\ frame' = [frame EXCEPT ![t] = NoFrame]
            /\ UNCHANGED <<store, storeUp, held, nextId, last, fnVars>>

\* Insert writing the remote url: `_GRIDFS_CACHE[k] = url`
Insert_url ==
    \E t \in Threads :
        LET k == frame[t].key
            u == MediaRef(frame[t].doc)
        IN  /\ pc[t] = "insert"
            /\ GRIDFS_CACHE' = MemoSet(GRIDFS_CACHE, k, k[2])
            /\ refs' = Handed(k, u)
            /\ pc' = [pc EXCEPT ![t] = "idle"]
            /\ frame' = [frame EXCEPT ![t] = NoFrame]
            /\ UNCHANGED <<store, storeUp, held, nextId, last, fnVars>>

\* doc = MEDIA_CACHE.get_file(url, size, kind), the store being reachable
\* (up) or not at that moment; the thread returns the original url when
\* there is no rendition, and leaves by the exception (caught by
\* get_og_image_url alone) when the store cannot be reached
Query ==
    \E t \in Threads, up \in BOOLEAN :
        LET k == frame[t].key
            doc == get_file(store, up, k[2], k[3], k[1])
        IN  /\ pc[t] = "query"
            /\ IF doc.t # "raise" /\ Truthy(doc)
               THEN /\ pc' = [pc EXCEPT ![t] = "insert"]
                    /\ frame' = [frame EXCEPT ![t].doc = doc]
                    /\ refs' = Returned(k, doc)
               ELSE /\ pc' = [pc EXCEPT ![t] = "idle"]
                    /\ frame' = [frame EXCEPT ![t] = NoFrame]
                    /\ UNCHANGED refs
            /\ UNCHANGED <<mediaVars, last, fnVars>>

\* u = f"/media/{str(doc._id)}"; _GRIDFS_CACHE[k] = u; return u
Insert ==
    \E t \in Threads :
        LET k == frame[t].key
            u == MediaRef(frame[t].doc)
        IN  /\ pc[t] = "insert"
            /\ GRIDFS_CACHE' = MemoSet(GRIDFS_CACHE, k, u)
            /\ refs' = Handed(k, u)
            /\ pc' = [pc EXCEPT ![t] = "idle"]
            /\ frame' = [frame EXCEPT ![t] = NoFrame]
            /\ UNCHANGED <<store, storeUp, held, nextId, last, fnVars>>

----------------------------------------------------------------------------
(* What happens to the store outside this process *)

\* the external pipeline stores a rendition for a key under a fresh ObjectId
StorePut ==
    \E k \in Keys :
        /\ nextId < MaxIds
        /\ nextId' = nextId + 1
        /\ store' = [store EXCEPT ![k] = File(nextId + 1)]
        /\ held' = [held EXCEPT ![k] = @ \cup {nextId + 1}]
        /\ last' = [last EXCEPT !.quiet = FALSE]
        /\ UNCHANGED <<storeUp, GRIDFS_CACHE, fnVars, threadVars>>

\* the rendition of a key is deleted from the store
StoreDelete ==
    \E k \in Keys :
        /\ store[k] # None_
        /\ store' = [store EXCEPT ![k] = None_]
        /\ last' = [last EXCEPT !.quiet = FALSE]
        /\ UNCHANGED <<storeUp, held, nextId, GRIDFS_CACHE, fnVars, threadVars>>

\* the database becomes unreachable, or reachable again
StoreFlip ==
    /\ storeUp' = ~storeUp
    /\ last' = [last EXCEPT !.quiet = FALSE]
    /\ UNCHANGED <<store, held, nextId, GRIDFS_CACHE, fnVars, threadVars>>

----------------------------------------------------------------------------
(* Specifications *)

InitMedia ==
    /\ GRIDFS_CACHE = <<>>
    /\ store = [k \in Keys |-> None_]
    /\ storeUp = TRUE
    /\ held = [k \in Keys |-> {}]
    /\ nextId = 0
    /\ last = NoLast

InitThreads ==
    /\ pc = [t \in Threads |-> "idle"]
    /\ frame = [t \in Threads |-> NoFrame]
    /\ refs = [k \in Keys |-> [vals |-> {}, docs |-> {}]]

Init ==
    /\ fn = NoCall /\ args = <<>> /\ ret = None_ /\ calls = <<>>
    /\ InitMedia
    /\ InitThreads

Next ==
    \/ get_actor_icon_url
    \/ get_attachment_url
    \/ get_og_image_url
    \/ StorePut
    \/ StoreDelete
    \/ StoreFlip

\* a single-threaded server resolving media while the store changes
Spec == Init /\ [][Next]_vars

InitFn ==
    /\ \E c \in FilterCalls : fn = c[1] /\ args = c[2]
    /\ ret = Pending /\ calls = <<>>
    /\ InitMedia
    /\ InitThreads

NextFn ==
    \/ Call_url_or_id
    \/ Call_get_url
    \/ Call_get_actor
    \/ Call_get_answer_count
    \/ Call_has_type

\* the document filters, each applied to every input of its input set
SpecFn == InitFn /\ [][NextFn]_vars

NextConc ==
    \/ Lookup
    \/ Query
    \/ Insert
    \/ StorePut
    \/ StoreDelete

\* request threads resolving media concurrently while the store changes
SpecConc == Init /\ [][NextConc]_vars

----------------------------------------------------------------------------
(* Properties of the media resolver on a single-threaded server (Spec)     *)

\* the call before the last one got a local reference, from the memo or
\* from the store
PrevResolved == last.prevSeen = <<>> \/ last.prevSeen[1].t = "file"

\* C1, as stated: the second of two successive calls of _get_file_url with
\* the same (url, size, kind) returns what the first returned and asks the
\* backing store nothing.
C1_SecondCallNeverQueries ==
    last.again => (last.ret = last.prevRet /\ last.seen = <<>>)

\* C1, amended: the second of two successive calls with the same arguments
\* returns what the first returned; it asks the store nothing when the first
\* got a local reference, and asks it once more when the first did not.
C1_SecondCallQueriesOnlyAfterMiss ==
    last.again =>
        /\ last.ret = last.prevRet
        /\ PrevResolved => last.seen = <<>>
        /\ ~PrevResolved => Len(last.seen) = 1

C1_Witness ==
    /\ last.again
    /\ last.prevSeen # <<>> /\ last.prevSeen[1].t = "file"
    /\ last.seen = <<>>
    /\ last.ret = last.prevRet

C4_DegradesToSourceUrl ==
    (last.fn # NoCall /\ last.seen = <<None_>>) =>
        /\ last.ret = last.key[2]
        /\ last.memoSame
        /\ last.quiet => last.key \notin DOMAIN GRIDFS_CACHE

C4_Witness ==
    /\ last.fn = "get_og_image_url"
    /\ last.seen = <<None_>>
    /\ last.ret = last.key[2]
    /\ last.quiet
    /\ GRIDFS_CACHE # <<>>

----------------------------------------------------------------------------
(* Properties of the media resolver run by several threads (SpecConc)      *)

\* C3, as stated: whatever the interleaving, all the local references
\* written to the memo or returned for one key are the same reference.
C3_OneReferencePerKey ==
    \A k \in Keys : Cardinality(refs[k].vals) <= 1

\* C3, amended: for a key whose rendition the store never replaced by
\* another one, all the local references written to the memo or returned
\* are the same reference, built from that rendition.
C3_OneReferencePerRendition ==
    \A k \in Keys :
        Cardinality(held[k]) <= 1 =>
            /\ Cardinality(refs[k].vals) <= 1
            /\ refs[k].vals \subseteq {MediaRef(File(i)) : i \in held[k]}

\* two threads raced on a key: both missed the memo and queried the store,
\* one has written and returned, the other is about to write the same
C3_Witness ==
    \E t \in Threads :
        /\ pc[t] = "insert"
        /\ frame[t].key \in DOMAIN GRIDFS_CACHE
        /\ GRIDFS_CACHE[frame[t].key] = MediaRef(frame[t].doc)
        /\ refs[frame[t].key].vals = {MediaRef(frame[t].doc)}
        /\ Cardinality(held[frame[t].key]) = 1

\* C10: every memo entry is "/media/<id>" for a rendition the store returned
\* for that very key, never the remote url, and no step of a resolving
\* thread changes the store.
C10_MemoHoldsReturnedRenditions ==
    [][/\ \A k \in DOMAIN GRIDFS_CACHE' :
              /\ \E doc \in refs'[k].docs : GRIDFS_CACHE'[k] = MediaRef(doc)
              /\ GRIDFS_CACHE'[k] # k[2]
       /\ (pc' # pc \/ refs' # refs \/ GRIDFS_CACHE' # GRIDFS_CACHE) =>
              (store' = store /\ storeUp' = storeUp /\ held' = held /\ nextId' = nextId)]_vars

\* the memo holds entries for two keys while a thread is about to write
C10_Witness ==
    /\ Cardinality(DOMAIN GRIDFS_CACHE) = 2
    /\ \E t \in Threads : pc[t] = "insert"
    /\ \E k \in DOMAIN GRIDFS_CACHE : store[k] = None_

----------------------------------------------------------------------------
(* Properties of the document filters (SpecFn)                             *)

Returned_(f) == fn = f /\ ret # Pending

\* the identifier a reference denotes: the first element of a sequence, the
\* id of a mapping
Identifier(ref) ==
    LET a == IF ref.t = "list" THEN ref.v[1] ELSE ref IN
    IF a.t = "dict" THEN a.v["id"] ELSE a

\* the references of the claim: an identifier, a mapping with an id, or a
\* sequence that starts with one of these
Identified(ref) ==
    LET a == IF ref.t = "list" /\ Len(ref.v) > 0 THEN ref.v[1] ELSE ref IN
    \/ a.t = "str" /\ a.v # ""
    \/ a.t = "dict" /\ "id" \in DOMAIN a.v

\* C5: get_actor raises nothing; a null reference gives None without a
\* backend call; for an identified reference the backend is asked for the
\* identifier, a document comes back as it is, ActivityNotFoundError and
\* ActivityGoneError both give "Deleted<identifier>", any other exception
\* gives "Error<identifier/diagnostic>".
C5_ActorNeverRaises ==
    Returned_("get_actor") =>
        LET ref == args[1]
            fetched == args[2]
        IN  /\ ret.t # "raise"
            /\ ref = None_ => (ret = None_ /\ calls = <<>>)
            /\ Identified(ref) =>
                 /\ calls = <<Identifier(ref)>>
                 /\ fetched.t # "raise" => ret = fetched
                 /\ (fetched.t = "raise" /\ fetched.v \in {"ActivityNotFoundError", "ActivityGoneError"})
                        => ret = Str("Deleted<" \o Identifier(ref).v \o ">")
                 /\ (fetched.t = "raise" /\ fetched.v \notin {"ActivityNotFoundError", "ActivityGoneError"})
                        => ret = Str("Error<" \o Identifier(ref).v \o "/" \o fetched.v \o "()>")

C5_Witness ==
    /\ Returned_("get_actor")
    /\ args[1] = List(<<Dict([id |-> Str("https://x/actor/1")]), Str("https://y/actor/2")>>)
    /\ args[2] = Raise("ActivityGoneError")
    /\ ret = Str("Deleted<https://x/actor/1>")
    /\ calls = <<Str("https://x/actor/1")>>

\* the set of tags a scalar or a sequence stands for
TagSet(x) == IF x.t = "list" THEN {x.v[i] : i \in 1..Len(x.v)} ELSE {x}

\* C6: has_type(doc, types) is true iff the tags of types and the tags of
\* the doc's type field intersect, a scalar standing for the one-element
\* sequence, and is false, raising nothing, for a doc without a type field.
C6_HasTypeIsIntersection ==
    Returned_("has_type") =>
        LET doc == args[1]
            docTags == IF "type" \in DOMAIN doc.v THEN TagSet(doc.v["type"]) ELSE {}
        IN  ret = Bool(TagSet(args[2]) \cap docTags # {})

\* C7: url_or_id returns the url of a mapping that has one, else its id,
\* else the empty string, and the empty string for a value that is no
\* mapping; it raises nothing.
C7_UrlOrIdTotal ==
    Returned_("url_or_id") =>
        LET d == args[1] IN
        ret = IF d.t # "dict" THEN Str("")
              ELSE IF "url" \in DOMAIN d.v THEN d.v["url"]
              ELSE IF "id" \in DOMAIN d.v THEN d.v["id"]
              ELSE Str("")

\* the options of a question under both of its option fields
BothOptionLists(obj) ==
    DictGet(obj, "oneOf", List(<<>>)).v \o DictGet(obj, "anyOf", List(<<>>)).v

\* C8: get_answer_count returns an integer: the non-zero count of the meta
\* if there is one; else the reply total (0 if it has none) of the first
\* option named choice among the oneOf and the anyOf options; else 0.
C8_AnswerCountIsInteger ==
    Returned_("get_answer_count") =>
        LET choice == args[1]
            obj == args[2]
            meta == args[3]
            cached == DictGet(DictGet(meta, "question_answers", Dict(<<>>)),
                              answer_key(choice.v), Num(0))
            opts == BothOptionLists(obj)
            hits == {i \in 1..Len(opts) : DictGet(opts[i], "name", None_) = choice}
        IN  /\ ret.t = "int"
            /\ cached.v # 0 => ret = cached
            /\ (cached.v = 0 /\ hits = {}) => ret = Num(0)
            /\ (cached.v = 0 /\ hits # {}) =>
                 \E i \in hits :
                    /\ \A j \in hits : i <= j
                    /\ ret = DictGet(DictGet(opts[i], "replies", Dict(<<>>)), "totalItems", Num(0))

IsHtml(l) == DictGet(l, "mimeType", None_) = Str("text/html")

\* C9: for a sequence of links get_url selects the first link whose
\* mimeType is text/html (the result is that link or its href), and returns
\* the sequence itself when no link is.
C9_FirstHtmlLink ==
    (Returned_("get_url") /\ args[1].t = "list") =>
        LET links == args[1].v
            html == {i \in 1..Len(links) : IsHtml(links[i])}
        IN  /\ html = {} => ret = args[1]
            /\ html # {} =>
                 \E i \in html :
                    /\ \A j \in html : i <= j
                    /\ ret \in {links[i], DictGet(links[i], "href", None_)}

====
